---- MODULE Spec2Model ----
(***************************************************************************)
(* URL shortener (Pizza-NZ/URL-Shortener): the identifier generation and   *)
(* the two URL stores (in-memory map, PostgreSQL), the service that ties   *)
(* them together and the HTTP handler in front of it.                      *)
(*                                                                         *)
(* A short code is a string over the sqids alphabet; it is modelled as the *)
(* tuple of its characters' indices. A long URL is a string.               *)
(***************************************************************************)
EXTENDS Integers, Sequences, FiniteSets, TLC

\* ------------------------------------------------------------------ bounds

\* Process restarts explored (the durable store survives, the rest is reset).
MaxRestarts == 1
\* Cap on the process-local counter within one process lifetime.
MaxLocal == 2
\* Cap on the committed rows of table_counter.
MaxRows == 3

\* Retry intervals the clock runs on past the supervisor's deadline.
MaxOverrun == 2

\* ------------------------------------------------------- program constants

\* service/counter.go: bigIntMax = big.NewInt(2000301)
bigIntMax == 2000301
\* sqids default alphabet: 62 characters, one of them used as the separator.
AlphabetLen == 62
\* "/" in the handler's "/" + shortURL, as an index outside the alphabet.
Slash == 62

\* cmd/main.go: time.NewTicker(10 * time.Second), in seconds.
Interval == 10
\* cmd/main.go: time.After(1 * time.Minute), in seconds.
Deadline == 60
\* cmd/main.go: context.WithTimeout(context.Background(), 2*time.Second), in
\* seconds.
ShutdownTimeout == 2
\* The clock moves in half intervals, up to Horizon.
Granule == Interval \div 2
Horizon == Deadline + MaxOverrun * Interval
\* config.ConnectionString(): always a "postgres://..." string.
ConnectionString == "postgres"
\* A connection string of another database, not beginning with "post".
OtherConnectionString == "mysql"
\* The connection strings StartNewDatabase is called with.
ConnStrings == {"", ConnectionString, OtherConnectionString}

\* The worker goroutines serving calls concurrently.
Procs == {1, 2}
\* A string is written as the sequence of its characters' code points.
\* The empty string "".
EmptyString == << >>
\* The long URLs "u1" and "u2".
U1 == << 117, 49 >>
U2 == << 117, 50 >>
\* A request body that is not JSON: "{".
NotJSON == << 123 >>
\* Long URLs a caller may submit; "" is the empty URL.
LongURLs == {EmptyString, U1, U2}
\* The draw of crypto/rand explored where its value is of no concern, and
\* the draws at the two ends of [0, bigIntMax).
RandDraws == {1}
RandEnds == {0, bigIntMax - 1}

\* ----------------------------------------------------------------- state

VARIABLES
  conn,          \* the connection string of the configuration: "" or "postgres"
  URLs,          \* DatabaseURLMapImpl.URLs of the running process: code -> long URL
  table_urls,    \* PostgreSQL table_urls: short_url -> long_url (committed rows)
  table_counter, \* PostgreSQL table_counter: number of committed rows
  counterLocal,  \* service.counterLocal.count
  counterDB,     \* service.counterDB: "nil" or "pg"
  isInit,        \* service.isInit
  DBURLs,        \* URLServiceImpl.DBURLs of the process's service: "map" or "pg"
  Service,       \* ShortenedURLHandlerImpl.Service: "nil" or "svc"
  pc,            \* per worker: where it is inside its call
  call,          \* per worker: the call's inputs and locals
  resp,          \* the answer written by the step just taken, if it completed a call
  issuedMap,     \* codes returned by successful creates on the current map, with their URLs
  issuedPG,      \* codes returned by successful creates on the durable store, with their URLs
  restarts,      \* process restarts so far
  supPC,         \* connectWithRetry: "select", "attempt", "attached" or "gaveup"
  now,           \* seconds since connectWithRetry created its ticker and timeout
  tickPending,   \* a tick is waiting in ticker.C (a channel of capacity 1)
  tickerAttempt, \* connectWithRetry's tickerAttempt
  lastStart,     \* when the latest connection attempt started, -1 before the first
  dbReady,       \* database.dbReady
  handedOut,     \* the values counterLocal.GetAndIncrement has returned, in order
  initRuns,      \* how many times initCounterDB has run in this process
  installs,      \* how many times SetServiceURL has been called in this process
  Counter,       \* src/main.go: Counter.count of the single-file server
  lock,          \* DatabaseURLMapImpl.lock: its writer (0 for none) and its readers
  mainPC,        \* cmd/main.go main: "serving", "shutdown" (inside Shutdown) or "exited"
  elapsed,       \* seconds since main called Shutdown
  randReader     \* crypto/rand.Reader: the numbers rand.Int draws from it in this run

dbVars == << table_urls, table_counter >>
counterVars == << counterLocal, counterDB, isInit >>
svcVars == << DBURLs, Service >>
procVars == << pc, call >>
ghostVars == << issuedMap, issuedPG >>
supVars == << supPC, now, tickPending, tickerAttempt, lastStart >>
lifeVars == << supVars, dbReady, handedOut, initRuns, installs >>
\* main's wait for the interrupt and its shutdown.
mainVars == << mainPC, elapsed >>
\* What no step of a request or of connectWithRetry changes: the
\* configuration, the state of the single-file server, which is another
\* program, the map's lock, which a store operation taken as one step
\* leaves free, and where main is.
staticVars == << conn, Counter, lock, mainVars, randReader >>
vars == << staticVars, URLs, dbVars, counterVars, svcVars, procVars, resp, ghostVars,
           restarts, lifeVars >>

\* ------------------------------------------------------- identifier encoder

\* The digits of n in base AlphabetLen - 1, most significant first, each
\* shifted by one so that index 0 stays free for the separator.
RECURSIVE ToId(_)
ToId(n) ==
  IF n < AlphabetLen - 1
    THEN << n + 1 >>
    ELSE Append(ToId(n \div (AlphabetLen - 1)), (n % (AlphabetLen - 1)) + 1)

\* SqidsGen.Generate: sqids' Encode of the number list. Each number is
\* written in the alphabet without the separator and the numbers are joined
\* by the separator; the empty list encodes to the empty string.
RECURSIVE Generate(_)
Generate(arr) ==
  IF Len(arr) = 0 THEN << >>
  ELSE IF Len(arr) = 1 THEN ToId(arr[1])
  ELSE ToId(arr[1]) \o << 0 >> \o Generate(Tail(arr))

\* A code no Generate call returns (a lone separator): "doesnotexist".
DoesNotExist == << 0 >>

\* ------------------------------------------------------------------ errors

\* A Go error value: its concrete type and, for a BadRequestError, the issue
\* of its detail. NoError is nil.
NoError == [type |-> "nil", issue |-> ""]
\* types.NewBadRequestError(details)
NewBadRequestError(issue) == [type |-> "BadRequestError", issue |-> issue]
\* types.NewNotFoundError(key)
NewNotFoundError == [type |-> "NotFoundError", issue |-> ""]
\* types.NewDBError(msg, err): an *AppError with status 500
NewDBError == [type |-> "AppError", issue |-> ""]
\* An error of the driver handed on as it is (tx.Commit's).
DriverError == [type |-> "error", issue |-> ""]

\* ------------------------------------------------------------------ stores

EmptyStore == [k \in {} |-> EmptyString]

\* DatabaseURLMapImpl.Get, under the read lock.
MapGet(m, key) ==
  IF key \in DOMAIN m
    THEN [val |-> m[key], err |-> NoError]
    ELSE [val |-> EmptyString, err |-> NewNotFoundError]

\* MapSet without the check that the key exists: the entry is overwritten.
MapSetNoExistsCheck(m, key, value) ==
  IF Len(key) = 0 \/ value = EmptyString
    THEN [store |-> m, err |-> NewBadRequestError("cannot be empty")]
    ELSE [store |-> [k \in DOMAIN m \cup {key} |-> IF k = key THEN value ELSE m[k]],
          err |-> NoError]

\* DatabaseURLMapImpl.Set, under the write lock: the new map and the error.
MapSet(m, key, value) ==
  IF Len(key) = 0 \/ value = EmptyString
    THEN [store |-> m, err |-> NewBadRequestError("cannot be empty")]
  ELSE IF key \in DOMAIN m
    THEN [store |-> m, err |-> NewBadRequestError("already exists")]
  ELSE [store |-> m @@ (key :> value), err |-> NoError]

\* What the database can do to one operation: let every statement through,
\* or fail at one of them.
SetFaults == {"ok", "begin", "exec", "commit"}
GetFaults == {"ok", "query"}

\* PGGet with every failed read reported as "not found".
PGGetAllNotFound(t, key, fault) ==
  IF fault = "ok" /\ key \in DOMAIN t THEN [val |-> t[key], err |-> NoError]
  ELSE [val |-> EmptyString, err |-> NewNotFoundError]

\* DatabaseURLPGImpl.Get: select long_url from table_urls where short_url=$1.
PGGet(t, key, fault) ==
  IF fault # "ok" THEN [val |-> EmptyString, err |-> NewDBError]
  ELSE IF key \in DOMAIN t THEN [val |-> t[key], err |-> NoError]
  ELSE [val |-> EmptyString, err |-> NewNotFoundError]

\* Upsert with the conflicting row's long_url assigned
\* (do update set long_url=excluded.long_url).
UpsertOverwrite(t, key, value) ==
  [k \in DOMAIN t \cup {key} |-> IF k = key THEN value ELSE t[k]]

\* The row of table_urls under key after
\*   insert into table_urls(short_url, long_url) values (key, value)
\*   on conflict (short_url) do update set short_url=excluded.short_url
\* the conflicting row keeps its long_url: only short_url is assigned, to
\* the value it already has.
Upsert(t, key, value) ==
  IF key \in DOMAIN t THEN t ELSE t @@ (key :> value)

\* PGSet with a failed commit that has written its row all the same.
PGSetCommitApplied(t, key, value, fault) ==
  CASE fault = "begin"  -> [store |-> t, err |-> NewDBError]
    [] fault = "exec"   -> [store |-> t, err |-> NewDBError]
    [] fault = "commit" -> [store |-> Upsert(t, key, value), err |-> DriverError]
    [] OTHER            -> [store |-> Upsert(t, key, value), err |-> NoError]

\* DatabaseURLPGImpl.Set: begin, exec, commit; nothing is validated.
PGSet(t, key, value, fault) ==
  CASE fault = "begin"  -> [store |-> t, err |-> NewDBError]
    [] fault = "exec"   -> [store |-> t, err |-> NewDBError]
    [] fault = "commit" -> [store |-> t, err |-> DriverError]
    [] OTHER            -> [store |-> Upsert(t, key, value), err |-> NoError]

\* ----------------------------------------------------------------- service

\* CreateShortenedURLResult with only a BadRequestError of Set handed on:
\* after any other error the code is returned with a nil error.
CreateShortenedURLResultSwallowed(shortURL, err) ==
  IF err.type = "BadRequestError"
    THEN [val |-> << >>, status |-> 400, type |-> err.type, issue |-> err.issue]
    ELSE [val |-> shortURL, status |-> 0, type |-> "nil", issue |-> ""]

\* CreateShortenedURLResult with a duplicate key told apart from invalid
\* input and answered 409.
CreateShortenedURLResultConflict(shortURL, err) ==
  IF err.type = "nil"
    THEN [val |-> shortURL, status |-> 0, type |-> "nil", issue |-> ""]
  ELSE IF err.type = "BadRequestError" /\ err.issue = "already exists"
    THEN [val |-> << >>, status |-> 409, type |-> "ConflictError", issue |-> err.issue]
  ELSE IF err.type = "BadRequestError"
    THEN [val |-> << >>, status |-> 400, type |-> err.type, issue |-> err.issue]
  ELSE [val |-> << >>, status |-> 500, type |-> err.type, issue |-> err.issue]

\* What CreateShortenedURL returns for the error of DBURLs.Set:
\* status 0 stands for a nil error.
CreateShortenedURLResult(shortURL, err) ==
  IF err.type = "nil"
    THEN [val |-> shortURL, status |-> 0, type |-> "nil", issue |-> ""]
  ELSE IF err.type = "BadRequestError"
    THEN [val |-> << >>, status |-> 400, type |-> err.type, issue |-> err.issue]
  ELSE [val |-> << >>, status |-> 500, type |-> err.type, issue |-> err.issue]

\* GetLongURLResult without the NotFoundError case: every error is a 500.
GetLongURLResultNoNotFound(got) ==
  IF got.err.type = "nil"
    THEN [val |-> got.val, status |-> 0, type |-> "nil", issue |-> ""]
    ELSE [val |-> EmptyString, status |-> 500, type |-> got.err.type, issue |-> ""]

\* What GetLongURL returns for the result of DBURLs.Get.
GetLongURLResult(got) ==
  IF got.err.type = "nil"
    THEN [val |-> got.val, status |-> 0, type |-> "nil", issue |-> ""]
  ELSE IF got.err.type = "NotFoundError"
    THEN [val |-> EmptyString, status |-> 404, type |-> got.err.type, issue |-> ""]
  ELSE [val |-> EmptyString, status |-> 500, type |-> got.err.type, issue |-> ""]

\* rand.Int(rand.Reader, bigIntMax): a number in [0, bigIntMax) with a nil
\* error, or an error.
randInt == [n : randReader, err : {FALSE}] \cup {[n |-> 0, err |-> TRUE]}

\* generateRandomUInt64 returning one past bigIntMax when rand.Int fails.
generateRandomUInt64PastMax ==
  {IF r.err THEN bigIntMax + 1 ELSE r.n : r \in randInt}

\* generateRandomUInt64: the draw of rand.Int, or bigIntMax.Uint64() when
\* rand.Int returns an error. It has no error result.
generateRandomUInt64 ==
  {IF r.err THEN bigIntMax ELSE r.n : r \in randInt}

\* ------------------------------------------------------------ calls in flight

NoCall == [op |-> "none", entry |-> "none", arg |-> EmptyString, second |-> -1, first |-> -1,
           ctr |-> "none"]
NoResp == [op |-> "none", entry |-> "none", arg |-> EmptyString, store |-> "none",
           val |-> EmptyString, status |-> 0, type |-> "nil", issue |-> ""]

\* The answer of a finished call: the call, the store it ran against and
\* what came back (r: val, status, type, issue).
Answer(c, store, r) ==
  [op |-> c.op, entry |-> c.entry, arg |-> c.arg, store |-> store,
   val |-> r.val, status |-> r.status, type |-> r.type, issue |-> r.issue]

\* A method called on a nil Database interface value: the goroutine panics
\* with a nil pointer dereference and nothing is returned.
Panic == [val |-> EmptyString, status |-> -1, type |-> "panic", issue |-> ""]

\* The creates between their start and their Set.
CreatesInFlight == {p \in Procs : pc[p] # "idle"}

\* The store the service reads and writes.
ActiveStore == IF DBURLs = "map" THEN URLs ELSE table_urls

\* One more successful create of code for url in the record of a store.
Issue(issued, code, url) ==
  IF code \in DOMAIN issued
    THEN [issued EXCEPT ![code] = Append(@, url)]
    ELSE issued @@ (code :> << url >>)

\* ------------------------------------------------------------------- Init

\* cmd/main.go: the handler is registered with no service, the process-wide
\* counters are at their initial values. The database holds the migrated
\* schema: table_urls empty, table_counter with the one row the migration
\* inserts.
InitState ==
  /\ URLs = EmptyStore
  /\ table_urls = EmptyStore
  /\ table_counter = 1
  /\ counterLocal = 0
  /\ counterDB = "nil"
  /\ isInit = FALSE
  /\ DBURLs = "none"
  /\ Service = "nil"
  /\ pc = [p \in Procs |-> "idle"]
  /\ call = [p \in Procs |-> NoCall]
  /\ resp = NoResp
  /\ issuedMap = EmptyStore
  /\ issuedPG = EmptyStore
  /\ restarts = 0
  /\ supPC = "select"
  /\ now = 0
  /\ tickPending = FALSE
  /\ tickerAttempt = 1
  /\ lastStart = -1
  /\ dbReady = FALSE
  /\ handedOut = << >>
  /\ initRuns = 0
  /\ installs = 0
  /\ Counter = 0
  /\ lock = [w |-> 0, r |-> {}]
  /\ mainPC = "serving"
  /\ elapsed = 0

\* The process started the way the README describes: with no connection
\* string for the in-memory mode, or with a postgres one.
Init == conn \in {"", ConnectionString} /\ randReader = RandDraws /\ InitState

\* The same start with a random source that draws the ends of its range.
InitRandEnds == conn \in {"", ConnectionString} /\ randReader = RandEnds /\ InitState

\* The process started with any of the connection strings explored.
InitAnyConn == conn \in ConnStrings /\ randReader = RandDraws /\ InitState

\* StartNewDatabase(conn) when it returns a nil error: the map for an empty
\* connection string, the PostgreSQL store (after a successful ping) for
\* one that begins with "post", and for any other string of four bytes or
\* more the default branch, return nil, nil: no store at all.
StartNewDatabase(c) ==
  CASE c = ""               -> "map"
    [] c = ConnectionString -> "pg"
    [] OTHER                -> "nil"

\* handler.SetServiceURL(service.NewURLService(db)), db the store that
\* StartNewDatabase returned.
SetServiceURL(db) ==
  /\ resp = NoResp
  /\ Service' = "svc"
  /\ DBURLs' = db
  /\ installs' = installs + 1
  /\ resp' = NoResp
  /\ UNCHANGED << handedOut, initRuns, staticVars, URLs, dbVars, counterVars,
                  procVars, ghostVars, restarts >>

\* -------------------------------------------------- CreateShortenedURL steps

\* URLServiceImpl.CreateShortenedURL(longURL) is entered: CountersArr starts.
BeginCreate(p, entry, longURL) ==
  /\ resp = NoResp
  /\ pc[p] = "idle"
  /\ Service = "svc"
  /\ counterLocal + Cardinality(CreatesInFlight) < MaxLocal
  /\ DBURLs = "pg" => table_counter + Cardinality(CreatesInFlight) < MaxRows
  /\ pc' = [pc EXCEPT ![p] = "ca_check"]
  /\ call' = [call EXCEPT ![p] = [op |-> "create", entry |-> entry,
                                  arg |-> longURL, second |-> -1, first |-> -1,
                                  ctr |-> "none"]]
  /\ resp' = NoResp
  /\ UNCHANGED << lifeVars, staticVars, URLs, dbVars, counterVars, svcVars, ghostVars,
                  restarts >>

\* CountersArr: if counterDB == nil && !isInit
CaCheck(p) ==
  /\ resp = NoResp
  /\ pc[p] = "ca_check"
  /\ pc' = [pc EXCEPT ![p] = IF counterDB = "nil" /\ ~isInit
                               THEN "ca_init" ELSE "ca_branch"]
  /\ resp' = NoResp
  /\ UNCHANGED << lifeVars, staticVars, URLs, dbVars, counterVars, svcVars, call, ghostVars,
                  restarts >>

\* initCounterDB: isInit = true
CaInit(p) ==
  /\ resp = NoResp
  /\ pc[p] = "ca_init"
  /\ isInit' = TRUE
  /\ initRuns' = initRuns + 1
  /\ pc' = [pc EXCEPT ![p] = "ca_switch"]
  /\ resp' = NoResp
  /\ UNCHANGED << supVars, dbReady, handedOut, installs, staticVars, URLs, dbVars, counterLocal, counterDB, svcVars, call,
                  ghostVars, restarts >>

\* initCounterDB: the type switch on s.DBURLs; only the PostgreSQL store
\* becomes counterDB, for the map an error is returned and logged.
CaSwitch(p) ==
  /\ resp = NoResp
  /\ pc[p] = "ca_switch"
  /\ counterDB' = IF DBURLs = "pg" THEN "pg" ELSE counterDB
  /\ pc' = [pc EXCEPT ![p] = "ca_branch"]
  /\ resp' = NoResp
  /\ UNCHANGED << lifeVars, staticVars, URLs, dbVars, counterLocal, isInit, svcVars, call,
                  ghostVars, restarts >>

\* CountersArr: if counterDB == nil { local, random } else the database counter
CaBranch(p) ==
  /\ resp = NoResp
  /\ pc[p] = "ca_branch"
  /\ pc' = [pc EXCEPT ![p] = IF counterDB = "nil" THEN "ca_local" ELSE "ctr_tx"]
  /\ resp' = NoResp
  /\ UNCHANGED << lifeVars, staticVars, URLs, dbVars, counterVars, svcVars, call, ghostVars,
                  restarts >>

\* What can go wrong in GetAndIncreament before its commit: Begin fails,
\* the insert fails, or the count cannot be read (QueryRow(...).Scan).
CtrFaults == {"ok", "begin", "exec", "scan"}

\* GetAndIncreament up to its commit: begin, insert into table_counter,
\* select count(*). The count sees the committed rows and the row of this
\* transaction. A failed Begin or insert returns (0, error) and CountersArr
\* falls back to a random number. The error of Scan is discarded
\* (_ = ...Scan(&counter)): counter stays 0 and the commit goes ahead.
\* call[p].ctr records what GetAndIncreament has done so far.
CtrTx(p) ==
  /\ resp = NoResp
  /\ pc[p] = "ctr_tx"
  /\ \E fault \in CtrFaults :
       IF fault \in {"begin", "exec"}
         THEN \E r \in generateRandomUInt64 :
                /\ call' = [call EXCEPT ![p].second = r, ![p].ctr = "failed"]
                /\ pc' = [pc EXCEPT ![p] = "ca_local"]
         ELSE /\ call' = [call EXCEPT
                            ![p].second = IF fault = "scan" THEN 0
                                                            ELSE table_counter + 1,
                            ![p].ctr = fault]
              /\ pc' = [pc EXCEPT ![p] = "ctr_commit"]
  /\ resp' = NoResp
  /\ UNCHANGED << lifeVars, staticVars, URLs, dbVars, counterVars, svcVars, ghostVars,
                  restarts >>

\* CtrCommit with CountersArr handing the commit's error on to its caller:
\* the create ends there with a 500.
CtrCommitSurfaced(p) ==
  /\ resp = NoResp
  /\ pc[p] = "ctr_commit"
  /\ \/ /\ table_counter' = table_counter + 1
        /\ call' = call
        /\ pc' = [pc EXCEPT ![p] = "ca_local"]
        /\ resp' = NoResp
     \/ /\ table_counter' = table_counter
        /\ call' = [call EXCEPT ![p] = NoCall]
        /\ pc' = [pc EXCEPT ![p] = "idle"]
        /\ resp' = Answer(call[p], DBURLs,
                     [val |-> << >>, status |-> 500, type |-> "error", issue |-> ""])
  /\ UNCHANGED << lifeVars, staticVars, URLs, table_urls, counterVars, svcVars, ghostVars, restarts >>

\* GetAndIncreament's commit: the inserted row becomes visible, or the
\* commit fails and CountersArr falls back to a random number.
CtrCommit(p) ==
  /\ resp = NoResp
  /\ pc[p] = "ctr_commit"
  /\ \/ /\ table_counter' = table_counter + 1
        /\ call' = call
     \/ \E r \in generateRandomUInt64 :
          /\ call' = [call EXCEPT ![p].second = r, ![p].ctr = "failed"]
          /\ table_counter' = table_counter
  /\ pc' = [pc EXCEPT ![p] = "ca_local"]
  /\ resp' = NoResp
  /\ UNCHANGED << lifeVars, staticVars, URLs, table_urls, counterVars, svcVars, ghostVars,
                  restarts >>

\* GetAndIncrement counting twice: a value is skipped at every call.
GetAndIncrementTwice(count) == [count |-> count + 2, ret |-> count + 2]

\* GetAndIncrement without the increment: every caller gets the same value.
GetAndIncrementNoIncrement(count) == [count |-> count, ret |-> count]

\* GlobalCounter.GetAndIncrement, under its mutex: c.count++; return c.count
GetAndIncrement(count) == [count |-> count + 1, ret |-> count + 1]

\* CountersArr: counterLocal.GetAndIncrement(), and the random second seed
\* when there is no database counter.
\* CaLocal with the second seed always drawn at random, whatever the
\* database counter returned.
CaLocalAlwaysRandom(p) ==
  /\ resp = NoResp
  /\ pc[p] = "ca_local"
  /\ LET g == GetAndIncrement(counterLocal) IN
       /\ counterLocal' = g.count
       /\ handedOut' = Append(handedOut, g.ret)
       /\ \E r \in generateRandomUInt64 :
            call' = [call EXCEPT ![p].first = g.ret, ![p].second = r]
  /\ pc' = [pc EXCEPT ![p] = "set"]
  /\ resp' = NoResp
  /\ UNCHANGED << supVars, dbReady, initRuns, installs, staticVars, URLs, dbVars, counterDB,
                  isInit, svcVars, ghostVars, restarts >>

\* CountersArr's return: counterLocal.GetAndIncrement() and, when the
\* database counter was not asked, generateRandomUInt64().
CaLocal(p) ==
  /\ resp = NoResp
  /\ pc[p] = "ca_local"
  /\ LET g == GetAndIncrement(counterLocal) IN
       /\ counterLocal' = g.count
       /\ handedOut' = Append(handedOut, g.ret)
       /\ \E r \in generateRandomUInt64 :
            call' = [call EXCEPT ![p].first = g.ret,
                                 ![p].second = IF @ = -1 THEN r ELSE @]
  /\ pc' = [pc EXCEPT ![p] = "set"]
  /\ resp' = NoResp
  /\ UNCHANGED << supVars, dbReady, initRuns, installs, staticVars, URLs, dbVars, counterDB, isInit, svcVars, ghostVars,
                  restarts >>

\* CountersArr's result for the call of p.
CountersArr(p) == << call[p].first, call[p].second >>

\* CreateResponse with the bare code as the body's shortURL.
CreateResponseNoSlash(r) ==
  IF r.status = 0
    THEN [val |-> r.val, status |-> 201, type |-> "nil", issue |-> ""]
    ELSE r

\* The handler's answer to a create, for what the service returned:
\* HandleError writes the AppError's status, JSONResponse 201 and "/" + code.
CreateResponse(r) ==
  IF r.status = 0
    THEN [val |-> << Slash >> \o r.val, status |-> 201, type |-> "nil", issue |-> ""]
    ELSE r

\* The handler's answer to a resolve: HandleError's status, or the redirect.
GetResponse(r) ==
  IF r.status = 0
    THEN [val |-> r.val, status |-> 301, type |-> "nil", issue |-> ""]
    ELSE r

\* CreateShortenedURL: Generate, DBURLs.Set and the return. A handler call
\* ends here too, with the response it writes.
CreateSet(p) ==
  /\ resp = NoResp
  /\ pc[p] = "set"
  /\ LET shortURL == Generate(CountersArr(p))
         longURL == call[p].arg
     IN
       IF DBURLs = "nil"
         THEN /\ resp' = Answer(call[p], DBURLs, Panic)
              /\ UNCHANGED << URLs, table_urls, ghostVars >>
         ELSE
       \E fault \in (IF DBURLs = "pg" THEN SetFaults ELSE {"ok"}) :
         LET set == IF DBURLs = "map"
                      THEN MapSet(URLs, shortURL, longURL)
                      ELSE PGSet(table_urls, shortURL, longURL, fault)
             r == CreateShortenedURLResult(shortURL, set.err)
         IN
           /\ URLs' = IF DBURLs = "map" THEN set.store ELSE URLs
           /\ table_urls' = IF DBURLs = "pg" THEN set.store ELSE table_urls
           /\ issuedMap' = IF DBURLs = "map" /\ r.status = 0
                             THEN Issue(issuedMap, shortURL, longURL) ELSE issuedMap
           /\ issuedPG' = IF DBURLs = "pg" /\ r.status = 0
                            THEN Issue(issuedPG, shortURL, longURL) ELSE issuedPG
           /\ resp' = Answer(call[p], DBURLs,
                IF call[p].entry = "http" THEN CreateResponse(r) ELSE r)
  /\ pc' = [pc EXCEPT ![p] = "idle"]
  /\ call' = [call EXCEPT ![p] = NoCall]
  /\ UNCHANGED << lifeVars, staticVars, table_counter, counterVars, svcVars, restarts >>

\* URLServiceImpl.CreateShortenedURL called on the service itself.
CreateShortenedURL(p, longURL) == BeginCreate(p, "svc", longURL)

\* An answer written before the service is reached.
Reply(p, op, arg, status, type) ==
  /\ resp' = [op |-> op, entry |-> "http", arg |-> arg, store |-> "none",
              val |-> EmptyString, status |-> status, type |-> type, issue |-> ""]
  /\ UNCHANGED << lifeVars, staticVars, URLs, dbVars, counterVars, svcVars, procVars,
                  ghostVars, restarts >>

Methods == {"GET", "POST"}
\* A request body: one that does not decode, or a payload with its LongURL.
Bodies == {NotJSON} \cup LongURLs

\* HandlerCreateShortenedURL answering 500 when it has no service.
HandlerCreateShortenedURLNoService500(p, method, body) ==
  /\ resp = NoResp
  /\ pc[p] = "idle"
  /\ IF method # "POST" THEN Reply(p, "create", body, 405, "AppError")
     ELSE IF body = NotJSON THEN Reply(p, "create", body, 400, "BadRequestError")
     ELSE IF body = EmptyString THEN Reply(p, "create", body, 400, "BadRequestError")
     ELSE IF Service = "nil" THEN Reply(p, "create", body, 500, "AppError")
     ELSE BeginCreate(p, "http", body)

\* ShortenedURLHandlerImpl.CreateShortenedURL: method, payload, empty
\* LongURL and missing service are answered at once, otherwise the service
\* is called.
HandlerCreateShortenedURL(p, method, body) ==
  /\ resp = NoResp
  /\ pc[p] = "idle"
  /\ IF method # "POST" THEN Reply(p, "create", body, 405, "AppError")
     ELSE IF body = NotJSON THEN Reply(p, "create", body, 400, "BadRequestError")
     ELSE IF body = EmptyString THEN Reply(p, "create", body, 400, "BadRequestError")
     ELSE IF Service = "nil" THEN Reply(p, "create", body, 503, "AppError")
     ELSE BeginCreate(p, "http", body)

\* The codes a caller asks for: those stored, one the encoder can return
\* and one it cannot.
ResolveKeys == DOMAIN ActiveStore \cup {Generate(<< 1, 0 >>), DoesNotExist}

\* URLServiceImpl.GetLongURL(shortURL) on the service's store.
GetLongURL(shortURL, fault) ==
  GetLongURLResult(IF DBURLs = "map" THEN MapGet(URLs, shortURL)
                                     ELSE PGGet(table_urls, shortURL, fault))

\* A GetLongURL call, on the service itself or from the handler, and its answer.
Resolve(p, entry, shortURL) ==
  /\ resp = NoResp
  /\ pc[p] = "idle"
  /\ Service = "svc"
  /\ \E fault \in (IF DBURLs = "pg" THEN GetFaults ELSE {"ok"}) :
       LET r == GetLongURL(shortURL, fault)
           c == [op |-> "resolve", entry |-> entry, arg |-> shortURL]
       IN resp' = Answer(c, DBURLs,
                    IF DBURLs = "nil" THEN Panic
                    ELSE IF entry = "http" THEN GetResponse(r) ELSE r)
  /\ UNCHANGED << lifeVars, staticVars, URLs, dbVars, counterVars, svcVars, procVars,
                  ghostVars, restarts >>

\* ShortenedURLHandlerImpl.GetShortenedURL: method and missing service are
\* answered at once, otherwise GetLongURL is called and its error or the
\* redirect written.
HandlerGetShortenedURL(p, method, shortURL) ==
  /\ resp = NoResp
  /\ pc[p] = "idle"
  /\ IF method # "GET" THEN Reply(p, "resolve", shortURL, 405, "AppError")
     ELSE IF Service = "nil" THEN Reply(p, "resolve", shortURL, 500, "AppError")
     ELSE Resolve(p, "http", shortURL)

\* The process exits and is started again: everything in its memory is at
\* its initial value, the database keeps its rows.
Restart ==
  /\ resp = NoResp
  /\ restarts < MaxRestarts
  /\ restarts' = restarts + 1
  /\ URLs' = EmptyStore
  /\ counterLocal' = 0
  /\ counterDB' = "nil"
  /\ isInit' = FALSE
  /\ DBURLs' = "none"
  /\ Service' = "nil"
  /\ pc' = [p \in Procs |-> "idle"]
  /\ call' = [p \in Procs |-> NoCall]
  /\ resp' = NoResp
  /\ issuedMap' = EmptyStore
  /\ supPC' = "select"
  /\ now' = 0
  /\ tickPending' = FALSE
  /\ tickerAttempt' = 1
  /\ lastStart' = -1
  /\ dbReady' = FALSE
  /\ handedOut' = << >>
  /\ initRuns' = 0
  /\ installs' = 0
  /\ UNCHANGED << staticVars, dbVars, issuedPG >>

\* ------------------------------------------------------- direct store calls

\* The keys a caller of the store itself passes: those stored, the empty
\* key and a code the service can generate.
StoreKeys == DOMAIN ActiveStore \cup {<< >>, Generate(<< 1, 1 >>)}

\* Database.Set(key, value) called on the service's store.
Set(key, value) ==
  /\ resp = NoResp
  /\ Service = "svc"
  /\ \A p \in Procs : pc[p] = "idle"
  /\ \E fault \in (IF DBURLs = "pg" THEN SetFaults ELSE {"ok"}) :
       LET set == IF DBURLs = "map" THEN MapSet(URLs, key, value)
                                    ELSE PGSet(table_urls, key, value, fault)
       IN
         /\ URLs' = IF DBURLs = "map" THEN set.store ELSE URLs
         /\ table_urls' = IF DBURLs = "pg" THEN set.store ELSE table_urls
         /\ resp' = [op |-> "Set", entry |-> "store", arg |-> key, store |-> DBURLs,
                     val |-> value, status |-> 0, type |-> set.err.type,
                     issue |-> set.err.issue]
  /\ UNCHANGED << lifeVars, staticVars, table_counter, counterVars, svcVars, procVars,
                  ghostVars, restarts >>

\* Database.Get(key) called on the service's store.
Get(key) ==
  /\ resp = NoResp
  /\ Service = "svc"
  /\ \A p \in Procs : pc[p] = "idle"
  /\ \E fault \in (IF DBURLs = "pg" THEN GetFaults ELSE {"ok"}) :
       LET got == IF DBURLs = "map" THEN MapGet(URLs, key)
                                    ELSE PGGet(table_urls, key, fault)
       IN resp' = [op |-> "Get", entry |-> "store", arg |-> key, store |-> DBURLs,
                   val |-> got.val, status |-> 0, type |-> got.err.type,
                   issue |-> got.err.issue]
  /\ UNCHANGED << lifeVars, staticVars, URLs, dbVars, counterVars, svcVars, procVars,
                  ghostVars, restarts >>

\* --------------------------------------------------------- specifications

\* The steps of the calls made on the service itself by the workers in P.
ServiceStep(P) ==
  \/ \E p \in P, u \in LongURLs : CreateShortenedURL(p, u)
  \/ \E p \in P : CaCheck(p)
  \/ \E p \in P : CaInit(p)
  \/ \E p \in P : CaSwitch(p)
  \/ \E p \in P : CaBranch(p)
  \/ \E p \in P : CtrTx(p)
  \/ \E p \in P : CtrCommit(p)
  \/ \E p \in P : CaLocal(p)
  \/ \E p \in P : CreateSet(p)
  \/ \E p \in P : \E k \in ResolveKeys : Resolve(p, "svc", k)

\* The requests the handler takes for the workers in P.
HandlerStep(P) ==
  \/ \E p \in P, m \in Methods, b \in Bodies : HandlerCreateShortenedURL(p, m, b)
  \/ \E p \in P, m \in Methods :
       \E k \in (IF Service = "svc" THEN ResolveKeys ELSE {DoesNotExist}) :
         HandlerGetShortenedURL(p, m, k)

\* The answer of the completed call is handed to its caller. Every other
\* step waits for that (resp = NoResp), so that each answer is looked at in
\* the state it was written in.
Deliver ==
  /\ resp # NoResp
  /\ resp' = NoResp
  /\ UNCHANGED << lifeVars, staticVars, URLs, dbVars, counterVars, svcVars, procVars,
                  ghostVars, restarts >>

\* StartNewDatabase(conn) succeeds (pingDB has set dbReady for a PostgreSQL
\* connection string) and its store is installed: what connectWithRetry
\* does on a successful attempt, with the supervisor's timing left out.
Attach ==
  /\ Service = "nil"
  /\ SetServiceURL(StartNewDatabase(conn))
  /\ dbReady' = (dbReady \/ StartNewDatabase(conn) = "pg")
  /\ UNCHANGED supVars

\* One process lifetime, its workers running concurrently: calls on the
\* service by every worker, requests through the handler by the first.
Next ==
  \/ Attach
  \/ ServiceStep(Procs)
  \/ HandlerStep({1})
  \/ Deliver

Spec == Init /\ [][Next]_vars

\* The calls made on the service itself, one at a time, with the random
\* source at the ends of its range.
NextRandEnds ==
  \/ Attach
  \/ ServiceStep({1})
  \/ Deliver

SpecRandEnds == InitRandEnds /\ [][NextRandEnds]_vars

\* The same lifetime for every connection string explored.
SpecAnyConn == InitAnyConn /\ [][Next]_vars

\* Process lifetimes one after the other over the same database, the calls
\* of each made one at a time.
NextRestart ==
  \/ Attach
  \/ ServiceStep({1})
  \/ HandlerStep({1})
  \/ Restart
  \/ Deliver

SpecRestart == Init /\ [][NextRestart]_vars

\* One process lifetime in which, besides the service, the store is called
\* directly, one call at a time.
NextStore ==
  \/ Attach
  \/ ServiceStep({1})
  \/ \E k \in StoreKeys, u \in LongURLs : Set(k, u)
  \/ \E k \in StoreKeys : Get(k)
  \/ Deliver

SpecStore == Init /\ [][NextStore]_vars

\* ------------------------------------------------ the connection supervisor

\* The value of time.After(1 * time.Minute) is in its channel.
TimeoutReady == now >= Deadline

\* Time passes while connectWithRetry is blocked: in its select with no
\* channel ready, or inside StartNewDatabase. The ticker sends a tick at
\* every multiple of Interval; ticker.C holds one tick, a tick that finds
\* it full is dropped.
Advance ==
  /\ resp = NoResp
  /\ now < Horizon
  /\ \/ supPC = "attempt"
     \/ supPC = "select" /\ ~tickPending /\ ~TimeoutReady
  /\ now' = now + Granule
  /\ tickPending' = (tickPending \/ (now' \div Interval > now \div Interval))
  /\ resp' = NoResp
  /\ UNCHANGED << supPC, tickerAttempt, lastStart, dbReady, handedOut,
                  initRuns, installs, staticVars, URLs, dbVars, counterVars,
                  svcVars, procVars, ghostVars, restarts >>

\* select, case <-ticker.C: StartNewDatabase is called. When the timeout is
\* ready too, select takes either case.
SelectTick ==
  /\ resp = NoResp
  /\ supPC = "select"
  /\ tickPending
  /\ tickPending' = FALSE
  /\ supPC' = "attempt"
  /\ lastStart' = now
  /\ resp' = NoResp
  /\ UNCHANGED << now, tickerAttempt, dbReady, handedOut, initRuns, installs,
                  staticVars, URLs, dbVars, counterVars, svcVars, procVars,
                  ghostVars, restarts >>

\* connectWithRetry returns: the deferred ticker.Stop() runs and the
\* function's locals are gone.
Return ==
  /\ tickPending' = FALSE
  /\ tickerAttempt' = 0
  /\ lastStart' = -1
  /\ now' = now

\* select, case <-timeout: the last error is logged and connectWithRetry
\* returns.
SelectTimeout ==
  /\ resp = NoResp
  /\ supPC = "select"
  /\ TimeoutReady
  /\ supPC' = "gaveup"
  /\ Return
  /\ resp' = NoResp
  /\ UNCHANGED << dbReady, handedOut, initRuns, installs, staticVars, URLs, dbVars,
                  counterVars, svcVars, procVars, ghostVars, restarts >>

\* StartNewDatabase returns an error: pingDB failed, or pingDB succeeded
\* (and set dbReady) and postgresDB failed. tickerAttempt++; continue
AttemptFail(pinged) ==
  /\ resp = NoResp
  /\ supPC = "attempt"
  /\ dbReady' = (dbReady \/ pinged)
  /\ tickerAttempt' = tickerAttempt + 1
  /\ supPC' = "select"
  /\ resp' = NoResp
  /\ UNCHANGED << now, tickPending, lastStart, handedOut, initRuns, installs,
                  staticVars, URLs, dbVars, counterVars, svcVars, procVars,
                  ghostVars, restarts >>

\* AttemptSucceed that returns without installing the service.
AttemptSucceedNoInstall ==
  /\ resp = NoResp
  /\ supPC = "attempt"
  /\ dbReady' = TRUE
  /\ supPC' = "attached"
  /\ Return
  /\ resp' = NoResp
  /\ UNCHANGED << handedOut, initRuns, installs, staticVars, URLs, dbVars,
                  counterVars, svcVars, procVars, ghostVars, restarts >>

\* AttemptSucceed that goes on with the loop instead of returning.
AttemptSucceedContinue ==
  /\ supPC = "attempt"
  /\ dbReady' = TRUE
  /\ SetServiceURL(StartNewDatabase(conn))
  /\ supPC' = "select"
  /\ UNCHANGED << now, tickPending, tickerAttempt, lastStart >>

\* StartNewDatabase returns the store: handler.SetServiceURL(
\* service.NewURLService(conn)) and return.
AttemptSucceed ==
  /\ supPC = "attempt"
  /\ dbReady' = TRUE
  /\ SetServiceURL(StartNewDatabase(conn))
  /\ supPC' = "attached"
  /\ Return

\* connectWithRetry, step by step.
connectWithRetry ==
  \/ SelectTick
  \/ SelectTimeout
  \/ \E pinged \in BOOLEAN : AttemptFail(pinged)
  \/ AttemptSucceed

\* --------------------------------------------------------------- the routes

\* RouteCreate without the middleware.
RouteCreateNoMiddleware(p, method, body) ==
  HandlerCreateShortenedURL(p, method, body)

\* DBReadyMiddleware in front of a handler: 503 unless database.IsDBReady().
RouteCreate(p, method, body) ==
  IF ~dbReady
    THEN /\ resp = NoResp
         /\ pc[p] = "idle"
         /\ Reply(p, "create", body, 503, "AppError")
    ELSE HandlerCreateShortenedURL(p, method, body)

\* RouteGet registered without DBReadyMiddleware.
RouteGetNoMiddleware(p, method, shortURL) ==
  HandlerGetShortenedURL(p, method, shortURL)

\* RouteGet sharing a lock with connectWithRetry's attempt: a resolve is
\* not taken while an attempt is under way.
RouteGetBehindAttempt(p, method, shortURL) ==
  /\ supPC # "attempt"
  /\ IF ~dbReady
       THEN /\ resp = NoResp
            /\ pc[p] = "idle"
            /\ Reply(p, "resolve", shortURL, 503, "AppError")
       ELSE HandlerGetShortenedURL(p, method, shortURL)

RouteGet(p, method, shortURL) ==
  IF ~dbReady
    THEN /\ resp = NoResp
         /\ pc[p] = "idle"
         /\ Reply(p, "resolve", shortURL, 503, "AppError")
    ELSE HandlerGetShortenedURL(p, method, shortURL)

\* The requests that reach the registered routes.
RouteStep(P) ==
  \/ \E p \in P, m \in Methods, b \in Bodies : RouteCreate(p, m, b)
  \/ \E p \in P, m \in Methods :
       \E k \in (IF Service = "svc" THEN ResolveKeys ELSE {DoesNotExist}) :
         RouteGet(p, m, k)

\* cmd/main.go: the configuration's connection string.
InitMain == Init /\ conn = ConnectionString

\* connectWithRetry alone, against the clock.
NextSupervisor ==
  \/ Advance
  \/ connectWithRetry

SpecSupervisor == InitMain /\ [][NextSupervisor]_vars

\* The process of cmd/main.go: connectWithRetry in the background, requests
\* arriving at the routes meanwhile, served one at a time.
NextMain ==
  \/ Advance
  \/ connectWithRetry
  \/ RouteStep({1})
  \/ \E p \in {1} : CaCheck(p)
  \/ \E p \in {1} : CaInit(p)
  \/ \E p \in {1} : CaSwitch(p)
  \/ \E p \in {1} : CaBranch(p)
  \/ \E p \in {1} : CtrTx(p)
  \/ \E p \in {1} : CtrCommit(p)
  \/ \E p \in {1} : CaLocal(p)
  \/ \E p \in {1} : CreateSet(p)
  \/ Deliver

SpecMain == InitMain /\ [][NextMain]_vars

\* The scheduling of the process: the clock runs, an attempt returns, a
\* goroutine blocked in select is resumed when a channel is ready, select
\* picks among its ready cases at random (so a case that is ready again and
\* again is taken), and a response written is delivered.
FairMain ==
  /\ SF_vars(Advance)
  /\ SF_vars(SelectTick)
  /\ SF_vars(SelectTimeout)
  /\ SF_vars((\E pinged \in BOOLEAN : AttemptFail(pinged)) \/ AttemptSucceed)
  /\ WF_vars(Deliver)

SpecMainFair == SpecMain /\ FairMain

\* ------------------------------------------------------------------ claims

\* An answer that reports a failure of the database itself (a DBError, or
\* the driver's error of a failed commit).
DatabaseFailed(r) == r.type \in {"AppError", "error"}

\* C1: round trip. For either backend, a CreateShortenedURL(longURL) with a
\* non-empty longURL that succeeded with code c is followed by GetLongURL(c)
\* (a read the store answers) returning exactly that longURL.
C1_RoundTrip ==
  /\ DBURLs = "map" =>
       \A c \in DOMAIN issuedMap : \A i \in 1..Len(issuedMap[c]) :
         issuedMap[c][i] # EmptyString =>
           GetLongURL(c, "ok") =
             [val |-> issuedMap[c][i], status |-> 0, type |-> "nil", issue |-> ""]
  /\ DBURLs = "pg" =>
       \A c \in DOMAIN issuedPG : \A i \in 1..Len(issuedPG[c]) :
         issuedPG[c][i] # EmptyString =>
           GetLongURL(c, "ok") =
             [val |-> issuedPG[c][i], status |-> 0, type |-> "nil", issue |-> ""]

\* C2: uniqueness under concurrency. Against one in-memory store, in every
\* interleaving, no code is returned by two successful creates, because the
\* calls hold pairwise distinct local counter values: the code of a call
\* about to be stored is neither another call's nor one already stored.
C2_UniqueCodesInMemory ==
  DBURLs = "map" =>
    /\ \A c \in DOMAIN issuedMap : Len(issuedMap[c]) = 1
    /\ \A p, q \in Procs :
         (p # q /\ pc[p] = "set" /\ pc[q] = "set") =>
           /\ call[p].first # call[q].first
           /\ Generate(CountersArr(p)) # Generate(CountersArr(q))
    /\ \A p \in Procs :
         pc[p] = "set" => Generate(CountersArr(p)) \notin DOMAIN URLs

\* C2's case: two creates run concurrently against the map and drew the
\* same second seed.
C2_Witness ==
  /\ DBURLs = "map"
  /\ pc[1] = "set" /\ pc[2] = "set"
  /\ call[1].second = call[2].second

\* C3: no two successful creates against the same durable store return the
\* same code, restarts and random second seeds included.
C3_UniqueCodesDurable ==
  \A c \in DOMAIN issuedPG : Len(issuedPG[c]) <= 1

\* C4: GetLongURL on a code that was never created never succeeds, and
\* when the store answers the read it fails with 404 wrapping a
\* NotFoundError, which the handler writes as 404; a stored code yields its
\* long URL, from the handler as a 301 redirect to it. GetLongURL is a
\* method of the service: the answers a handler writes before it has a
\* service (store "none") are not answers of GetLongURL.
C4_ResolveUnknownNotFound ==
  resp.op = "resolve" /\ resp.store # "none" =>
    IF resp.arg \in DOMAIN ActiveStore
      THEN ~DatabaseFailed(resp) =>
             /\ resp.val = ActiveStore[resp.arg]
             /\ resp.status = (IF resp.entry = "http" THEN 301 ELSE 0)
      ELSE /\ resp.status \notin {0, 301}
           /\ resp.val = EmptyString
           /\ ~DatabaseFailed(resp) =>
                resp.status = 404 /\ resp.type = "NotFoundError"

\* C4's case: with a code stored, the handler answered 404 for another one.
C4_Witness ==
  /\ resp.op = "resolve" /\ resp.entry = "http"
  /\ resp.status = 404
  /\ resp.arg \notin DOMAIN ActiveStore
  /\ ActiveStore # EmptyStore

\* C5: CreateShortenedURL("") fails with a 400 wrapping a BadRequestError
\* and stores no mapping, whichever backend is active.
C5_EmptyLongURLRejected ==
  /\ (resp.op = "create" /\ resp.arg = EmptyString /\ ~DatabaseFailed(resp)) =>
       resp.status = 400 /\ resp.type = "BadRequestError"
  /\ \A c \in DOMAIN URLs : URLs[c] # EmptyString
  /\ \A c \in DOMAIN table_urls : table_urls[c] # EmptyString

\* C6: Set(code, url) on either store fails with a BadRequestError whenever
\* code or url is empty, and then the store's contents are unchanged.
C6_SetValidatesEmpty ==
  [][(resp'.op = "Set" /\ (Len(resp'.arg) = 0 \/ resp'.val = EmptyString)
        /\ ~DatabaseFailed(resp'))
       => /\ resp'.type = "BadRequestError"
          /\ URLs' = URLs
          /\ table_urls' = table_urls]_vars

\* C7: in-memory Set on a code that already exists fails and never
\* overwrites: Get returns after the call what it returned before.
C7_MapSetNeverOverwrites ==
  [][(resp'.op = "Set" /\ resp'.store = "map" /\ resp'.arg \in DOMAIN URLs)
       => /\ resp'.type = "BadRequestError"
          /\ MapGet(URLs', resp'.arg) = MapGet(URLs, resp'.arg)]_vars

\* C7's case: a Set on the map with a stored code and another URL was
\* rejected.
C7_Witness ==
  /\ resp.op = "Set" /\ resp.store = "map"
  /\ resp.issue = "already exists"
  /\ URLs[resp.arg] # resp.val

\* C8: durable Set on a code that already exists succeeds and overwrites:
\* a Set the database lets through returns no error and Get then returns
\* the URL just set.
C8_DurableSetOverwrites ==
  (resp.op = "Set" /\ resp.store = "pg" /\ ~DatabaseFailed(resp)) =>
    /\ resp.type = "nil"
    /\ PGGet(table_urls, resp.arg, "ok") = [val |-> resp.val, err |-> NoError]

\* C9: a mapping entry, once created, is never updated or deleted: in both
\* stores, what Get returns for a stored code is what it returns after
\* every step.
C9_EntriesNeverChange ==
  [][/\ \A k \in DOMAIN URLs : MapGet(URLs', k) = MapGet(URLs, k)
     /\ \A k \in DOMAIN table_urls :
          PGGet(table_urls', k, "ok") = PGGet(table_urls, k, "ok")]_vars

\* C9's case: the durable store accepted a Set of another URL on a stored
\* code, and the entry is as it was.
C9_Witness ==
  /\ resp.op = "Set" /\ resp.store = "pg" /\ resp.type = "nil"
  /\ resp.arg \in DOMAIN table_urls
  /\ table_urls[resp.arg] # resp.val

\* What CreateShortenedURL answers for an empty longURL on the in-memory store.
EmptyInputAnswer ==
  CreateShortenedURLResult(Generate(<< 1, 1 >>),
                           MapSet(EmptyStore, Generate(<< 1, 1 >>), EmptyString).err)

\* A create that the store rejected as a duplicate.
RejectedAsDuplicate(r) == r.op = "create" /\ r.issue = "already exists"

C11_ReturnsPreviousValue ==
  /\ {handedOut[i] : i \in 1..Len(handedOut)} = 0..(Len(handedOut) - 1)
  /\ \A i, j \in 1..Len(handedOut) : i # j => handedOut[i] # handedOut[j]

\* C12: the local counter is an atomic read-modify-write: in every
\* interleaving the values returned are pairwise distinct and consecutive,
\* none skipped and none duplicated, and after N calls the counter is
\* exactly N above its starting value.
C12_AtomicReadModifyWrite ==
  /\ counterLocal = Len(handedOut)
  /\ \A i \in 1..Len(handedOut) : handedOut[i] = handedOut[1] + (i - 1)
  /\ \A i, j \in 1..Len(handedOut) : i # j => handedOut[i] # handedOut[j]
  /\ \A p, q \in Procs :
       (p # q /\ call[p].first # -1 /\ call[q].first # -1) =>
         call[p].first # call[q].first

\* C12's case: two concurrent calls have both been through the counter.
C12_Witness ==
  /\ Len(handedOut) = 2
  /\ pc[1] = "set" /\ pc[2] = "set"

\* C19: no half-swapped backend. With the durable-backed service installed,
\* a create never takes its second seed without asking the durable counter
\* (a call that reaches the local counter on the durable store has a second
\* seed from GetAndIncreament or from the fallback after its failure), and
\* the database counter is never paired with the in-memory store.
C19_NoHalfSwappedBackend ==
  /\ \A p \in Procs :
       (DBURLs = "pg" /\ pc[p] = "ca_local") => call[p].second # -1
  /\ DBURLs = "map" => counterDB = "nil"

\* C20: the capability of the active store is inspected exactly once per
\* process lifetime: initCounterDB never runs a second time, and it has
\* run once isInit is set.
C20_InitCounterDBOnce ==
  /\ initRuns <= 1
  /\ isInit => initRuns = 1

\* An answer that refuses a request because no backend is there: the 503 of
\* DBReadyMiddleware or of the create handler without a service, the 500 of
\* the resolve handler without a service.
Refused(r) == r.entry = "http" /\ r.store = "none" /\ r.status \in {503, 500}

\* An answer written without any service: a refusal, or the handler's
\* rejection of the method (405) or of the payload (400).
Unserved(r) ==
  /\ r.store = "none"
  /\ r.val = EmptyString
  /\ r.status \in {503, 500, 405, 400}

C15_InstalledOnce ==
  [][/\ installs' <= 1
     /\ Service = "svc" =>
          Service' = "svc" /\ DBURLs' = DBURLs /\ installs' = installs
     /\ (DBURLs' # DBURLs \/ Service' # Service \/ installs' # installs) =>
          /\ supPC = "attempt" /\ supPC' = "attached"
          /\ Service' = "svc" /\ DBURLs' = "pg"]_vars

\* C15's case: the supervisor has attached the durable store, later than
\* its first tick, and a create has been served by it since.
C15_Witness ==
  /\ supPC = "attached" /\ installs = 1
  /\ now > Interval /\ now < Deadline
  /\ DBURLs = "pg" /\ Service = "svc"
  /\ resp.op = "create" /\ resp.status = 201

\* C16: the start times of two consecutive connection attempts are at
\* least one retry interval apart.
C16_NeverFasterThanInterval ==
  [][(supPC = "select" /\ supPC' = "attempt" /\ lastStart # -1) =>
       lastStart' - lastStart >= Interval]_vars

\* C17: no connection attempt starts once the deadline has elapsed, also
\* when a tick and the timeout are ready together.
C17_NoAttemptAfterDeadline ==
  [][(supPC = "select" /\ supPC' = "attempt") => ~TimeoutReady]_vars

\* C18: the supervisor makes at most Deadline / Interval attempts and ends
\* attached, the service installed exactly once, or given up, no service
\* installed; neither end is ever left.
C18_BoundedAttempts ==
  [][/\ supPC' = "attempt" => tickerAttempt' <= Deadline \div Interval
     /\ supPC' = "attached" => installs' = 1 /\ Service' = "svc"
     /\ supPC' = "gaveup" => installs' = 0 /\ Service' = "nil"
     /\ supPC \in {"attached", "gaveup"} => supPC' = supPC]_vars

\* C21: the readiness probe is true only when the durable backend is
\* attached: dbReady implies that the handler's service is installed and
\* durable-backed, and no request that passes the readiness gate finds the
\* service missing.
C21_ReadyOnlyWhenAttached ==
  /\ dbReady => Service = "svc" /\ DBURLs = "pg"
  /\ dbReady => ~Refused(resp)

\* C22: a create request (POST) with a non-empty longURL that arrives while
\* the handler has no service is answered 503 and changes neither a store
\* nor a counter.
C22_CreateUnavailable ==
  [][\A p \in Procs, b \in LongURLs \ {EmptyString} :
       (Service = "nil" /\ RouteCreate(p, "POST", b)) =>
         /\ resp'.op = "create" /\ resp'.status = 503
         /\ resp'.val = EmptyString
         /\ UNCHANGED << URLs, dbVars, counterVars, handedOut, procVars >>]_vars

\* C22's case: a create with a non-empty longURL passed the readiness gate
\* and was answered 503 by the handler, which has no service.
C22_Witness ==
  /\ Service = "nil" /\ dbReady
  /\ resp.op = "create" /\ resp.status = 503
  /\ resp.arg \in LongURLs \ {EmptyString}

\* C23: a resolve request (GET) that arrives while the handler has no
\* service is answered 503, whether or not dbReady is already true.
C23_ResolveUnavailable ==
  [][\A p \in Procs :
       (Service = "nil" /\ RouteGet(p, "GET", DoesNotExist)) =>
         resp'.op = "resolve" /\ resp'.status = 503]_vars

\* The create of p that is at its Set step ends with this step.
SetStep(p) == pc[p] = "set" /\ pc'[p] = "idle" /\ restarts' = restarts

\* The call has the service's nil error (201 is the handler's answer to it).
Succeeded(r) == r.status \in {0, 201}

\* C24: a failure of the database counter is never surfaced: when
\* GetAndIncreament returns an error, CountersArr goes on with a random
\* number and no answer is written; the create is answered at its Set step
\* only, and there it succeeds exactly when DBURLs.Set succeeds.
C24_CounterFailureNotSurfaced ==
  [][\A p \in Procs :
       /\ (pc[p] \in {"ctr_tx", "ctr_commit"} /\ pc'[p] # pc[p]) =>
            /\ pc'[p] \in {"ctr_commit", "ca_local"}
            /\ resp' = NoResp
            /\ call'[p].arg = call[p].arg
            /\ call'[p].ctr = "failed" =>
                 pc'[p] = "ca_local" /\ call'[p].second \in generateRandomUInt64
       /\ (call[p].ctr = "failed" /\ pc[p] = "ca_local" /\ pc'[p] # pc[p]) =>
            pc'[p] = "set" /\ resp' = NoResp /\ call'[p].second = call[p].second
       /\ (call[p].ctr = "failed" /\ SetStep(p)) =>
            \E fault \in SetFaults :
              LET set == PGSet(table_urls, Generate(CountersArr(p)), call[p].arg, fault)
              IN /\ table_urls' = set.store
                 /\ Succeeded(resp') <=> set.err = NoError]_vars

\* C24's case: GetAndIncreament has returned an error, CountersArr has put
\* a random number in its place, and the create is at its Set.
C24_Witness ==
  \E p \in Procs :
    /\ pc[p] = "set" /\ call[p].ctr = "failed"
    /\ call[p].second \in generateRandomUInt64

\* C25: GetAndIncreament returns a nil error only if none of its steps
\* failed: a call whose count could not be read (Scan) has not returned a
\* value to CountersArr.
C25_ErrorOnAnyFailure ==
  \A p \in Procs : pc[p] \in {"ca_local", "set"} => call[p].ctr # "scan"

\* C26: no two calls of GetAndIncreament that returned a nil error returned
\* the same value.
C26_NeverReissued ==
  \A p, q \in Procs :
    ( /\ p # q
      /\ pc[p] \in {"ca_local", "set"} /\ call[p].ctr = "ok"
      /\ pc[q] \in {"ca_local", "set"} /\ call[q].ctr = "ok" )
    => call[p].second # call[q].second

\* C27: CountersArr returns two seeds. The first is the value of the one
\* counterLocal.GetAndIncrement() of the call, and no other step moves
\* counterLocal; the second is what GetAndIncreament returned if counterDB
\* is set and it returned a nil error, a random number otherwise.
C27_SeedPair ==
  [][/\ \A p \in Procs :
          (pc[p] = "ca_local" /\ pc'[p] = "set") =>
            /\ Len(CountersArr(p)') = 2
            /\ counterLocal' = counterLocal + 1
            /\ call'[p].first = counterLocal'
            /\ IF call[p].ctr \in {"ok", "scan"}
                 THEN counterDB = "pg" /\ call'[p].second = call[p].second
                 ELSE call'[p].second \in generateRandomUInt64
     /\ counterLocal' # counterLocal =>
          /\ restarts' = restarts
          /\ \E p \in Procs : pc[p] = "ca_local" /\ pc'[p] = "set"
     /\ \A p \in Procs :
          (pc[p] = "ctr_tx" /\ call'[p].ctr = "ok") =>
            call'[p].second = table_counter + 1]_vars

\* C27's case: both kinds of second seed have been assembled, by two calls
\* at their Set: the database counter's value and a random number.
C27_Witness ==
  \E p, q \in Procs :
    /\ pc[p] = "set" /\ call[p].ctr = "ok" /\ call[p].second = table_counter
    /\ pc[q] = "set" /\ call[q].ctr # "ok" /\ call[q].second \in generateRandomUInt64
    /\ call[p].first # call[q].first

\* C28: a create returns an error, and no code, exactly when DBURLs.Set
\* returned an error, and a call under way ends nowhere but at its Set;
\* when Set succeeds the call returns the generated, non-empty code with a
\* nil error, on the map (isInit true and no counterDB) as on PostgreSQL.
C28_SetDecidesCreate ==
  [][\A p \in Procs :
       /\ (pc[p] \notin {"idle", "set"} /\ restarts' = restarts) => pc'[p] # "idle"
       /\ SetStep(p) =>
            \E fault \in (IF DBURLs = "pg" THEN SetFaults ELSE {"ok"}) :
              LET shortURL == Generate(CountersArr(p))
                  set == IF DBURLs = "map"
                           THEN MapSet(URLs, shortURL, call[p].arg)
                           ELSE PGSet(table_urls, shortURL, call[p].arg, fault)
              IN /\ ActiveStore' = set.store
                 /\ IF set.err = NoError
                      THEN /\ Succeeded(resp')
                           /\ Len(shortURL) > 0
                           /\ resp'.val \in {shortURL, << Slash >> \o shortURL}
                      ELSE /\ resp'.status \in {400, 500}
                           /\ resp'.val = << >>]_vars

\* C28's case: on the map, with the database counter decided as not
\* supported (isInit, no counterDB), a create has succeeded and the error
\* of a Set has come back from another create.
C28_Witness ==
  /\ DBURLs = "map" /\ isInit /\ counterDB = "nil"
  /\ DOMAIN issuedMap # {}
  /\ resp.op = "create" /\ resp.status = 400 /\ resp.type = "BadRequestError"

\* C29: the PostgreSQL Get answers NotFoundError only when no row has the
\* key and a row's long_url only when there is one, every other failure
\* being a database error; GetLongURL and CreateShortenedURL return 404
\* exactly for a NotFoundError of the store, 400 exactly for a
\* BadRequestError, 500 for every other error, and success for none.
C29_ErrorClassification ==
  /\ (resp.op = "Get" /\ resp.store = "pg") =>
       /\ resp.type \in {"nil", "NotFoundError", "AppError"}
       /\ resp.type = "NotFoundError" => resp.arg \notin DOMAIN table_urls
       /\ resp.type = "nil" =>
            resp.arg \in DOMAIN table_urls /\ resp.val = table_urls[resp.arg]
  /\ (resp.op = "resolve" /\ resp.store # "none") =>
       /\ resp.status \in {0, 301} <=> resp.type = "nil"
       /\ resp.status = 404 <=> resp.type = "NotFoundError"
       /\ resp.status = 500 <=> resp.type \notin {"nil", "NotFoundError"}
       /\ resp.status = 404 => resp.arg \notin DOMAIN ActiveStore
       /\ resp.status \in {0, 301} =>
            resp.arg \in DOMAIN ActiveStore /\ resp.val = ActiveStore[resp.arg]
  /\ (resp.op = "create" /\ resp.store # "none") =>
       /\ Succeeded(resp) <=> resp.type = "nil"
       /\ resp.status = 400 <=> resp.type = "BadRequestError"
       /\ resp.status = 500 <=> resp.type \notin {"nil", "BadRequestError"}

\* C29's case: a resolve on PostgreSQL of a key that has a row failed in
\* the read and was answered 500.
C29_Witness ==
  /\ resp.op = "resolve" /\ resp.store = "pg"
  /\ resp.arg \in DOMAIN table_urls
  /\ resp.status = 500 /\ resp.type = "AppError"

\* The steps of a create of worker p that has been taken.
CreateSteps(p) ==
  \/ CaCheck(p) \/ CaInit(p) \/ CaSwitch(p) \/ CaBranch(p)
  \/ CtrTx(p) \/ CtrCommit(p) \/ CaLocal(p) \/ CreateSet(p)

\* C30: wherever connectWithRetry is (in its select, inside an attempt,
\* returned after attaching or after giving up), an idle worker can take a
\* resolve and a create request, a create taken can take its next step, and
\* an answer written can be delivered; none waits for a step of
\* connectWithRetry.
C30_RequestsNeverBlocked ==
  /\ supPC \in {"select", "attempt", "attached", "gaveup"}
  /\ (resp = NoResp /\ pc[1] = "idle") =>
       /\ ENABLED RouteGet(1, "GET", DoesNotExist)
       /\ ENABLED RouteCreate(1, "POST", EmptyString)
       /\ (counterLocal < MaxLocal /\ table_counter < MaxRows) =>
            ENABLED RouteCreate(1, "POST", U1)
  /\ (resp = NoResp /\ pc[1] # "idle") => ENABLED CreateSteps(1)
  /\ resp # NoResp => ENABLED Deliver

\* C30's case: a resolve request was taken and answered while a connection
\* attempt was under way, after an earlier attempt had failed.
C30_Witness ==
  /\ supPC = "attempt" /\ tickerAttempt > 1
  /\ resp.entry = "http" /\ resp.op = "resolve"

\* C32: the create handler answers a POST whose LongURL is empty with 400
\* without calling the service (no counter, store or call changes), calls
\* the service only with a non-empty LongURL, and when the service returns
\* the code c with a nil error answers 201 with shortURL = "/" + c.
C32_CreateHandlerContract ==
  [][\A p \in Procs :
       /\ HandlerCreateShortenedURL(p, "POST", EmptyString) =>
            /\ resp'.op = "create" /\ resp'.status = 400
            /\ UNCHANGED << URLs, dbVars, counterVars, handedOut, initRuns,
                            procVars, ghostVars >>
       /\ (pc[p] = "idle" /\ pc'[p] # "idle" /\ call'[p].entry = "http") =>
            call'[p].arg \in LongURLs \ {EmptyString}
       /\ (SetStep(p) /\ call[p].entry = "http") =>
            LET c == Generate(CountersArr(p)) IN
              IF Succeeded(resp')
                THEN /\ resp'.status = 201
                     /\ resp'.val = << Slash >> \o c
                     /\ c \in DOMAIN ActiveStore'
                ELSE resp'.status \in {400, 500}]_vars

\* C32's case: a POST with a non-empty LongURL went through the service
\* and was answered 201 with "/" and the code.
C32_Witness ==
  /\ resp.op = "create" /\ resp.entry = "http"
  /\ resp.arg \in LongURLs \ {EmptyString}
  /\ resp.status = 201 /\ Len(resp.val) > 1 /\ resp.val[1] = Slash

\* C35: while dbReady is false every request to the create route and to the
\* resolve route, whatever its method and payload, is answered 503, and
\* the handler's service, the workers' calls, the counters and the stores
\* stay as they are.
C35_NotReadyRefusedUntouched ==
  [][\A p \in Procs, m \in Methods :
       ~dbReady =>
         /\ \A b \in Bodies :
              RouteCreate(p, m, b) =>
                /\ resp'.op = "create" /\ resp'.status = 503
                /\ UNCHANGED << URLs, dbVars, counterVars, svcVars, procVars,
                                handedOut, initRuns, installs, ghostVars >>
         /\ RouteGet(p, m, DoesNotExist) =>
              /\ resp'.op = "resolve" /\ resp'.status = 503
              /\ UNCHANGED << URLs, dbVars, counterVars, svcVars, procVars,
                              handedOut, initRuns, installs, ghostVars >>]_vars

\* C35's case: a resolve request arrived while dbReady was false, during a
\* connection attempt, and was answered 503.
C35_Witness ==
  /\ ~dbReady /\ supPC = "attempt"
  /\ resp.op = "resolve" /\ resp.entry = "http" /\ resp.status = 503

\* C37: a create that returns an error has left URLs and table_urls as they
\* were before its Set, and no earlier step of a create writes to them.
C37_FailedCreateLeavesStore ==
  [][\A p \in Procs :
       /\ (SetStep(p) /\ ~Succeeded(resp')) =>
            URLs' = URLs /\ table_urls' = table_urls
       /\ (pc[p] \notin {"idle", "set"} /\ pc'[p] # pc[p]) =>
            URLs' = URLs /\ table_urls' = table_urls]_vars

\* C37's case: on PostgreSQL, with rows in table_urls, a create came back
\* with the error of a failed commit.
C37_Witness ==
  /\ resp.op = "create" /\ resp.store = "pg"
  /\ resp.status = 500 /\ resp.type = "error"
  /\ DOMAIN table_urls # {}

\* C38: every second seed that comes from generateRandomUInt64 lies in
\* 0..bigIntMax: below bigIntMax for a draw of rand.Int, bigIntMax itself
\* when rand.Int fails; and the step that takes it never ends the call with
\* an error.
C38_RandomSeedRange ==
  [][\A p \in Procs :
       (pc'[p] # "idle" /\ call'[p].second # call[p].second
          /\ call'[p].ctr \notin {"ok", "scan"}) =>
         /\ call'[p].second \in 0..bigIntMax
         /\ call'[p].second = bigIntMax \/ call'[p].second \in randReader
         /\ \A n \in randReader : 0 <= n /\ n < bigIntMax
         /\ pc'[p] \in {"ca_local", "set"} /\ resp' = NoResp]_vars

\* C38's case: a call whose second seed was the largest draw has stored its
\* code, and the next stands at its Set with the value of a failed rand.Int.
C38_Witness ==
  \E p \in Procs :
    /\ pc[p] = "set" /\ call[p].ctr \notin {"ok", "scan"}
    /\ call[p].second = bigIntMax
    /\ \E code \in DOMAIN ActiveStore : code = Generate(<< 1, bigIntMax - 1 >>)

\* C36: StartNewDatabase returns a nil error only together with a store,
\* so the service installed in the handler always has one.
C36_StoreWhenNoError ==
  Service = "svc" => DBURLs \in {"map", "pg"}

\* C34: no create and no resolve ends in a panic; a call on a service
\* without a store is answered with an error.
C34_NoPanic ==
  /\ resp.type # "panic"
  /\ (resp # NoResp /\ resp.store = "nil") => resp.status >= 400

\* ------------------------------------------- the single-file server (main.go)

\* src/main.go is a program of its own: one URLMap (URLs), the global
\* Counter, and handlers that do the service's work themselves. A worker's
\* call keeps the count it read in call[p].first.

\* The path of the create route, "/shorten": r.URL.Path in the handler.
ShortenPath == << Slash, 115, 104, 111, 114, 116, 101, 110 >>

\* handleCreateShortenedURL up to DecodePayload in serviceToShortenURL: a
\* method other than POST is answered 405, a body that does not decode 400.
handleCreateShortenedURL(p, method, body) ==
  /\ resp = NoResp
  /\ pc[p] = "idle"
  /\ Cardinality(DOMAIN URLs) + Cardinality(CreatesInFlight) < MaxLocal
  /\ IF method # "POST" \/ body = NotJSON
       THEN /\ resp' = [op |-> "create", entry |-> "http", arg |-> body,
                        store |-> "map", val |-> EmptyString,
                        status |-> IF method # "POST" THEN 405 ELSE 400,
                        type |-> "AppError", issue |-> ""]
            /\ UNCHANGED procVars
       ELSE /\ pc' = [pc EXCEPT ![p] = "sf_generate"]
            /\ call' = [call EXCEPT ![p] = [op |-> "create", entry |-> "http",
                                            arg |-> body, second |-> -1,
                                            first |-> -1, ctr |-> "none"]]
            /\ resp' = NoResp
  /\ UNCHANGED << lifeVars, conn, randReader, mainVars, lock, Counter, URLs, dbVars, counterVars, svcVars,
                  ghostVars, restarts >>

\* SqidsGen.Generate(): Counter.Count() is read under the counter's mutex
\* and encoded.
sqidsGenGenerate(p) ==
  /\ resp = NoResp
  /\ pc[p] = "sf_generate"
  /\ call' = [call EXCEPT ![p].first = Counter]
  /\ pc' = [pc EXCEPT ![p] = "sf_set"]
  /\ resp' = NoResp
  /\ UNCHANGED << lifeVars, conn, randReader, mainVars, lock, Counter, URLs, dbVars, counterVars, svcVars,
                  ghostVars, restarts >>

\* serviceToShortenURL with Counter.Increment() called before the error
\* of DBURLs.Set is looked at.
serviceToShortenURLCountsFailures(p) ==
  /\ resp = NoResp
  /\ pc[p] = "sf_set"
  /\ LET code == Generate(<< call[p].first >>)
         set == MapSet(URLs, code, call[p].arg)
         r == CreateShortenedURLResult(code, set.err)
     IN
       /\ URLs' = set.store
       /\ IF r.status = 0
            THEN /\ pc' = [pc EXCEPT ![p] = "sf_increment"]
                 /\ call' = call
                 /\ resp' = NoResp
                 /\ Counter' = Counter
            ELSE /\ pc' = [pc EXCEPT ![p] = "idle"]
                 /\ call' = [call EXCEPT ![p] = NoCall]
                 /\ resp' = Answer(call[p], "map", r)
                 /\ Counter' = Counter + 1
  /\ UNCHANGED << lifeVars, conn, randReader, mainVars, lock, dbVars, counterVars, svcVars,
                  ghostVars, restarts >>

\* serviceToShortenURL: DBURLs.Set(generatedShortURL, payload.LongURL) under
\* the map's lock; its error ends the request with a 400 or a 500.
serviceToShortenURL(p) ==
  /\ resp = NoResp
  /\ pc[p] = "sf_set"
  /\ LET code == Generate(<< call[p].first >>)
         set == MapSet(URLs, code, call[p].arg)
         r == CreateShortenedURLResult(code, set.err)
     IN
       /\ URLs' = set.store
       /\ IF r.status = 0
            THEN /\ pc' = [pc EXCEPT ![p] = "sf_increment"]
                 /\ call' = call
                 /\ resp' = NoResp
            ELSE /\ pc' = [pc EXCEPT ![p] = "idle"]
                 /\ call' = [call EXCEPT ![p] = NoCall]
                 /\ resp' = Answer(call[p], "map", r)
  /\ UNCHANGED << lifeVars, conn, randReader, mainVars, lock, Counter, dbVars, counterVars, svcVars,
                  ghostVars, restarts >>

\* Counter.Increment() after the successful Set, the return, and the
\* handler's 201 with r.URL.Path followed by the code.
CounterIncrement(p) ==
  /\ resp = NoResp
  /\ pc[p] = "sf_increment"
  /\ Counter' = Counter + 1
  /\ LET code == Generate(<< call[p].first >>) IN
       /\ issuedMap' = Issue(issuedMap, code, call[p].arg)
       /\ resp' = Answer(call[p], "map",
                    [val |-> ShortenPath \o code, status |-> 201,
                     type |-> "nil", issue |-> ""])
  /\ pc' = [pc EXCEPT ![p] = "idle"]
  /\ call' = [call EXCEPT ![p] = NoCall]
  /\ UNCHANGED << lifeVars, conn, randReader, mainVars, lock, URLs, dbVars, counterVars, svcVars,
                  issuedPG, restarts >>

\* The single-file server's workers, running concurrently.
NextSingleFile ==
  \/ \E p \in Procs, m \in Methods, b \in Bodies : handleCreateShortenedURL(p, m, b)
  \/ \E p \in Procs : sqidsGenGenerate(p)
  \/ \E p \in Procs : serviceToShortenURL(p)
  \/ \E p \in Procs : CounterIncrement(p)
  \/ Deliver

\* src/main.go has no connection string: its map and its counter are
\* package variables, empty and zero at the start.
InitSingleFile == conn = "" /\ randReader = RandDraws /\ InitState

SpecSingleFile == InitSingleFile /\ [][NextSingleFile]_vars

\* C39: in the single-file server no code is returned by two successful
\* creates, the counter never exceeds the number of entries of the map,
\* and with no request in flight the two are equal.
C39_SingleFileCounter ==
  /\ \A code \in DOMAIN issuedMap : Len(issuedMap[code]) = 1
  /\ Counter <= Cardinality(DOMAIN URLs)
  /\ (\A p \in Procs : pc[p] = "idle") => Counter = Cardinality(DOMAIN URLs)

\* C39's case: two creates read the same count; one stored its code and
\* was counted, the other has just been refused as a duplicate, and no
\* request is in flight.
C39_Witness ==
  /\ \A p \in Procs : pc[p] = "idle"
  /\ Counter >= 1
  /\ resp.op = "create" /\ resp.store = "map" /\ resp.status = 400
  /\ resp.arg \in LongURLs \ {EmptyString}

\* --------------------------------------------- the map store, lock by lock

\* DatabaseURLMapImpl.Get and Set statement by statement, called by the
\* workers concurrently on one map. call[p].arg is the key, call[p].first
\* the index of the value in LongURLSeq, call[p].ctr what Set has decided.

LongURLSeq == << EmptyString, U1, U2 >>
\* The keys passed: the empty key and two codes.
LockKeys == {EmptyString, Generate(<< 1, 1 >>), Generate(<< 1, 2 >>)}

\* A worker calls Set(key, value) or Get(key).
MapCall(p, op, key, v) ==
  /\ resp = NoResp
  /\ pc[p] = "idle"
  /\ pc' = [pc EXCEPT ![p] = IF op = "Set" THEN "ms_lock" ELSE "mg_rlock"]
  /\ call' = [call EXCEPT ![p] = [op |-> op, entry |-> "store", arg |-> key,
                                  second |-> -1, first |-> v, ctr |-> "none"]]
  /\ resp' = NoResp
  /\ UNCHANGED << lifeVars, conn, randReader, mainVars, Counter, lock, URLs, dbVars, counterVars,
                  svcVars, ghostVars, restarts >>

\* Set entered without m.lock.Lock().
MapSetLockNoExclusion(p) ==
  /\ resp = NoResp
  /\ pc[p] = "ms_lock"
  /\ pc' = [pc EXCEPT ![p] = "ms_check"]
  /\ resp' = NoResp
  /\ UNCHANGED << lifeVars, conn, randReader, mainVars, Counter, lock, URLs, dbVars, counterVars,
                  svcVars, call, ghostVars, restarts >>

\* m.lock.Lock(): waits until there is no writer and no reader.
MapSetLock(p) ==
  /\ resp = NoResp
  /\ pc[p] = "ms_lock"
  /\ lock.w = 0 /\ lock.r = {}
  /\ lock' = [lock EXCEPT !.w = p]
  /\ pc' = [pc EXCEPT ![p] = "ms_check"]
  /\ resp' = NoResp
  /\ UNCHANGED << lifeVars, conn, randReader, mainVars, Counter, URLs, dbVars, counterVars, svcVars,
                  call, ghostVars, restarts >>

\* Set: the checks of key and value and the lookup of the key.
MapSetCheck(p) ==
  /\ resp = NoResp
  /\ pc[p] = "ms_check"
  /\ LET set == MapSet(URLs, call[p].arg, LongURLSeq[call[p].first]) IN
       IF set.err = NoError
         THEN /\ pc' = [pc EXCEPT ![p] = "ms_insert"]
              /\ call' = call
         ELSE /\ pc' = [pc EXCEPT ![p] = "ms_unlock"]
              /\ call' = [call EXCEPT ![p].ctr = set.err.issue]
  /\ resp' = NoResp
  /\ UNCHANGED << lifeVars, conn, randReader, mainVars, Counter, lock, URLs, dbVars, counterVars,
                  svcVars, ghostVars, restarts >>

\* Set: m.URLs[key] = value
MapSetInsert(p) ==
  /\ resp = NoResp
  /\ pc[p] = "ms_insert"
  /\ URLs' = [k \in DOMAIN URLs \cup {call[p].arg} |->
                IF k = call[p].arg THEN LongURLSeq[call[p].first] ELSE URLs[k]]
  /\ call' = [call EXCEPT ![p].ctr = "ok"]
  /\ pc' = [pc EXCEPT ![p] = "ms_unlock"]
  /\ resp' = NoResp
  /\ UNCHANGED << lifeVars, conn, randReader, mainVars, Counter, lock, dbVars, counterVars, svcVars,
                  ghostVars, restarts >>

\* Set returns: the deferred m.lock.Unlock() and the error to the caller.
MapSetUnlock(p) ==
  /\ resp = NoResp
  /\ pc[p] = "ms_unlock"
  /\ lock' = IF lock.w = p THEN [lock EXCEPT !.w = 0] ELSE lock
  /\ issuedMap' = IF call[p].ctr = "ok"
                    THEN Issue(issuedMap, call[p].arg, LongURLSeq[call[p].first])
                    ELSE issuedMap
  /\ resp' = [op |-> "Set", entry |-> "store", arg |-> call[p].arg,
              store |-> "map", val |-> LongURLSeq[call[p].first], status |-> 0,
              type |-> IF call[p].ctr = "ok" THEN "nil" ELSE "BadRequestError",
              issue |-> IF call[p].ctr = "ok" THEN "" ELSE call[p].ctr]
  /\ pc' = [pc EXCEPT ![p] = "idle"]
  /\ call' = [call EXCEPT ![p] = NoCall]
  /\ UNCHANGED << lifeVars, conn, randReader, mainVars, Counter, URLs, dbVars, counterVars, svcVars,
                  issuedPG, restarts >>

\* m.lock.RLock(): waits until there is no writer.
MapGetRLock(p) ==
  /\ resp = NoResp
  /\ pc[p] = "mg_rlock"
  /\ lock.w = 0
  /\ lock' = [lock EXCEPT !.r = @ \cup {p}]
  /\ pc' = [pc EXCEPT ![p] = "mg_read"]
  /\ resp' = NoResp
  /\ UNCHANGED << lifeVars, conn, randReader, mainVars, Counter, URLs, dbVars, counterVars, svcVars,
                  call, ghostVars, restarts >>

\* Get: the lookup, the deferred m.lock.RUnlock() and the return.
MapGetRead(p) ==
  /\ resp = NoResp
  /\ pc[p] = "mg_read"
  /\ lock' = [lock EXCEPT !.r = @ \ {p}]
  /\ LET got == MapGet(URLs, call[p].arg) IN
       resp' = [op |-> "Get", entry |-> "store", arg |-> call[p].arg,
                store |-> "map", val |-> got.val, status |-> 0,
                type |-> got.err.type, issue |-> got.err.issue]
  /\ pc' = [pc EXCEPT ![p] = "idle"]
  /\ call' = [call EXCEPT ![p] = NoCall]
  /\ UNCHANGED << lifeVars, conn, randReader, mainVars, Counter, URLs, dbVars, counterVars, svcVars,
                  ghostVars, restarts >>

\* The workers call the map concurrently.
NextMapLock ==
  \/ \E p \in Procs, k \in LockKeys, v \in DOMAIN LongURLSeq : MapCall(p, "Set", k, v)
  \/ \E p \in Procs, k \in LockKeys : MapCall(p, "Get", k, 1)
  \/ \E p \in Procs : MapSetLock(p)
  \/ \E p \in Procs : MapSetCheck(p)
  \/ \E p \in Procs : MapSetInsert(p)
  \/ \E p \in Procs : MapSetUnlock(p)
  \/ \E p \in Procs : MapGetRLock(p)
  \/ \E p \in Procs : MapGetRead(p)
  \/ Deliver

\* mapDB(): the map StartNewDatabase("") returns, empty, its lock free.
InitMapLock == conn = "" /\ randReader = RandDraws /\ InitState

SpecMapLock == InitMapLock /\ [][NextMapLock]_vars

\* The Set calls that have inserted their key and not yet returned.
Winners(key) ==
  {p \in Procs : pc[p] = "ms_unlock" /\ call[p].arg = key /\ call[p].ctr = "ok"}

\* C31: of the Set calls with one new non-empty key, however they overlap,
\* exactly one returns nil and the map holds its value; every other one
\* with a non-empty value returns "already exists"; a Get returns
\* NotFound or the value of the call that won.
C31_SetAtomic ==
  /\ \A key \in DOMAIN issuedMap :
       /\ Len(issuedMap[key]) = 1
       /\ key \in DOMAIN URLs /\ URLs[key] = issuedMap[key][1]
       /\ Winners(key) = {}
  /\ \A key \in DOMAIN URLs \ DOMAIN issuedMap :
       /\ Cardinality(Winners(key)) = 1
       /\ \A p \in Winners(key) : URLs[key] = LongURLSeq[call[p].first]
  /\ (resp.op = "Set" /\ resp.arg # EmptyString /\ resp.val # EmptyString) =>
       IF resp.type = "nil"
         THEN issuedMap[resp.arg] = << resp.val >>
         ELSE /\ resp.issue = "already exists"
              /\ resp.arg \in DOMAIN URLs
  /\ resp.op = "Get" =>
       \/ resp.type = "NotFoundError" /\ resp.val = EmptyString
       \/ /\ resp.type = "nil"
          /\ resp.arg \in DOMAIN URLs /\ resp.val = URLs[resp.arg]
          /\ resp.val \in {U1, U2}

\* C31's case: two Set calls with the same new key and different non-empty
\* values overlap: one has inserted its value and still holds the lock,
\* the other waits for the lock.
C31_Witness ==
  \E p, q \in Procs :
    /\ q \in Winners(call[q].arg)
    /\ pc[p] = "ms_lock" /\ call[p].arg = call[q].arg
    /\ call[p].first # call[q].first /\ LongURLSeq[call[p].first] # EmptyString
    /\ lock.w = q

\* ------------------------------------------------------ graceful shutdown

\* main after it has started the server: it waits for the interrupt, calls
\* Shutdown with a context of ShutdownTimeout seconds and exits. The
\* server takes requests until Shutdown closes its listeners; a request in
\* flight runs on until the process exits.

\* <-ctx.Done(): the interrupt signal arrives and main calls
\* cfg.serverCfg.Shutdown(shutdownCtx), which closes the listeners.
Interrupt ==
  /\ resp = NoResp
  /\ mainPC = "serving"
  /\ mainPC' = "shutdown"
  /\ elapsed' = 0
  /\ resp' = NoResp
  /\ UNCHANGED << lifeVars, conn, randReader, Counter, lock, URLs, dbVars, counterVars,
                  svcVars, procVars, ghostVars, restarts >>

\* A second passes while Shutdown waits; shutdownCtx is done at
\* ShutdownTimeout and Shutdown returns then.
ShutdownTick ==
  /\ resp = NoResp
  /\ mainPC = "shutdown"
  /\ elapsed < ShutdownTimeout
  /\ elapsed' = elapsed + 1
  /\ resp' = NoResp
  /\ UNCHANGED << lifeVars, conn, randReader, Counter, lock, mainPC, URLs, dbVars,
                  counterVars, svcVars, procVars, ghostVars, restarts >>

\* os.Exit(0) right after the signal, without the call of Shutdown.
ExitAtOnce ==
  /\ resp = NoResp
  /\ mainPC = "shutdown"
  /\ mainPC' = "exited"
  /\ resp' = NoResp
  /\ UNCHANGED << lifeVars, conn, randReader, Counter, lock, elapsed, URLs, dbVars,
                  counterVars, svcVars, procVars, ghostVars, restarts >>

\* http.Server.Shutdown returns, nil when no connection has a request in
\* flight or ctx.Err() when shutdownCtx is done, and main calls os.Exit(0).
Exit ==
  /\ resp = NoResp
  /\ mainPC = "shutdown"
  /\ (\A p \in Procs : pc[p] = "idle") \/ elapsed = ShutdownTimeout
  /\ mainPC' = "exited"
  /\ resp' = NoResp
  /\ UNCHANGED << lifeVars, conn, randReader, Counter, lock, elapsed, URLs, dbVars,
                  counterVars, svcVars, procVars, ghostVars, restarts >>

\* The listeners are open: a request arrives at a route. As in NextMain
\* the requests are served one at a time.
Accept == mainPC = "serving" /\ RouteStep({1})

\* The process runs: a create in flight takes its next step.
InFlight == mainPC # "exited" /\ \E p \in {1} : CreateSteps(p)

\* The process runs: connectWithRetry's attempt succeeds.
Connect == mainPC # "exited" /\ Attach

\* cmd/main.go from the start of the server to the exit of the process.
NextShutdown ==
  \/ Connect
  \/ Accept
  \/ InFlight
  \/ Interrupt
  \/ ShutdownTick
  \/ Exit
  \/ Deliver

\* Time passes, Shutdown returns and a response written is delivered;
\* nothing is assumed of the steps of the requests in flight.
FairShutdown == WF_vars(ShutdownTick) /\ WF_vars(Exit) /\ WF_vars(Deliver)

SpecShutdown == InitMain /\ [][NextShutdown]_vars /\ FairShutdown

\* C33: the process exits only out of Shutdown, and then only when no
\* request is in flight or ShutdownTimeout seconds have passed; until then
\* a create in flight can take its next step; Shutdown never lasts longer
\* than ShutdownTimeout, and once called it leads to the exit whether or
\* not the requests in flight finish.
C33_GracefulShutdown ==
  /\ [][/\ (mainPC # "exited" /\ mainPC' = "exited") =>
             /\ mainPC = "shutdown"
             /\ (\A p \in Procs : pc[p] = "idle") \/ elapsed = ShutdownTimeout
        /\ elapsed' <= ShutdownTimeout
        /\ mainPC = "exited" => UNCHANGED << mainVars, procVars, URLs, dbVars >>]_vars
  /\ [](\A p \in Procs :
          (mainPC = "shutdown" /\ resp = NoResp /\ pc[p] # "idle") =>
            ENABLED CreateSteps(p))
  /\ (mainPC = "shutdown") ~> (mainPC = "exited")

\* C33's case: after a create that was stored, another was in flight and
\* did not finish; the deadline passed and the process has exited with it
\* still in flight.
C33_Witness ==
  /\ mainPC = "exited" /\ elapsed = ShutdownTimeout
  /\ \E p \in Procs : pc[p] # "idle"
  /\ DOMAIN table_urls # {}

====
